---- MODULE Spec2Model ----
(***************************************************************************)
(* The cube orientation and showcase sequencer of MagicCube.vue.           *)
(*                                                                         *)
(* Time is the value of performance.now() in milliseconds, an integer.     *)
(* Orientations are quantised to the 24 axis-aligned rotations of the      *)
(* cube: an orientation stands for the axis-aligned rotation nearest to    *)
(* the quaternion the code holds, and a slerp moves it a quarter turn      *)
(* nearer to its target or leaves it in its cell.                          *)
(*                                                                         *)
(* Inside its cell an orientation leans: besides the face turned squarely   *)
(* along the camera axis, up to two more faces (never two opposite ones)    *)
(* have a normal with a component along the camera's viewing direction.    *)
(* The tilt of an orientation is that set of faces.                         *)
(*                                                                         *)
(* Angles are integers in millidegrees, drag deltas integers in pixels.    *)
(* Date.now() is performance.now() shifted by TimeOrigin.                  *)
(*                                                                         *)
(* Spec is the component in an environment without pointer events and in   *)
(* which no texture load started after construction settles;               *)
(* SpecInteraction adds the pointer, SpecTextures the settling of texture  *)
(* loads.  SpecMomentum is a short drag and the spin after it,             *)
(* SpecShowcaseExit the showcase started and stopped between frames,       *)
(* SpecUnmount the component unmounted at any moment, and SpecAssignment   *)
(* the variant of the component in src/unnamed/part_006, which assigns     *)
(* images to the faces lap by lap while the showcase runs.                 *)
(* SpecDragGate is that variant with the pointer going down before or     *)
(* after the showcase starts, SpecAssignedTextures that variant with its   *)
(* texture loads resolving at any moment, and SpecLoadsSucceed             *)
(* MagicCube.vue with texture loads that all succeed, in any order.        *)
(*                                                                         *)
(* A showcase sequence is a number[]: its entries are held in halves, so   *)
(* that a number that is no integer can be an entry.  Num(n) is the        *)
(* integer n, Num(2) + 1 is 2.5.                                           *)
(***************************************************************************)
EXTENDS Integers, Sequences, FiniteSets, TLC

VARIABLES
    props,                    \* props.showcaseMode, fixed for the session
    phase,                    \* "loading" until initThreeJS has built the cube
    now,                      \* performance.now()
    cubeQuaternion,           \* cube.quaternion (Orientation)
    targetQuaternion,         \* targetQuaternion (Target Orientation)
    isShowcaseActive,
    isShowcasePaused,
    showcaseCurrentIndex,
    showcaseAccumulatedTime,
    lastShowcaseFrameTime,
    showcaseSequence,
    showcaseFaceDuration,
    showcaseLoop,
    emits,                    \* the events the last call emitted, in order
    lastOp,                   \* the handler that ran last
    unpausedTotal,            \* history: sum of the deltaTime added since Start
    advances,                 \* history: index advances since Start
    cubeTilt,                 \* the faces of cube.quaternion that lean to the camera axis
    targetTilt,               \* the same for targetQuaternion
    isDragging,
    dragDelta,                \* <<dragDeltaX, dragDeltaY>>, pixels
    lastDragDelta,            \* <<lastDragDeltaX, lastDragDeltaY>>
    momentum,                 \* <<momentumX, momentumY>>, millidegrees per frame
    previouslyVisibleFaces,
    faceImageIndices,
    faceChangeTimestamps,
    totalImageCycles,
    materialMaps,             \* per face, the image its material.map shows
    pendingLoads,             \* the updateFaceTexture calls awaiting their texture
    drivers,                  \* history: what rotated the cube in the last frame
    risen,                    \* history: the faces that entered the visible set in
                              \* the last frame that ran face cycling
    isUnmounted,              \* onUnmounted has run
    animationFrameId,         \* 1 while a requested frame is to come, else 0
    showcaseImageOffset,      \* part_006: offset into props.images of the lap
    pendingSkippedFaceUpdate, \* part_006: the skipped face still to update, or Null
    pendingUpdateTriggered,   \* part_006: the one-shot flag of the pending update
    faceWrites,               \* history: the faces whose image index or texture
                              \* each writer wrote in the last frame
    pendingApplied            \* history: pending updates applied since the last
                              \* lap boundary

vars == <<props, phase, now, cubeQuaternion, targetQuaternion, isShowcaseActive,
          isShowcasePaused, showcaseCurrentIndex, showcaseAccumulatedTime,
          lastShowcaseFrameTime, showcaseSequence, showcaseFaceDuration,
          showcaseLoop, emits, lastOp, unpausedTotal, advances, cubeTilt,
          targetTilt, isDragging, dragDelta, lastDragDelta, momentum,
          previouslyVisibleFaces, faceImageIndices, faceChangeTimestamps,
          totalImageCycles, materialMaps, pendingLoads, drivers, risen,
          isUnmounted, animationFrameId, showcaseImageOffset,
          pendingSkippedFaceUpdate, pendingUpdateTriggered, faceWrites,
          pendingApplied>>

sequencer == <<isShowcaseActive, isShowcasePaused, showcaseCurrentIndex,
               showcaseAccumulatedTime, lastShowcaseFrameTime>>

config == <<props, showcaseSequence, showcaseFaceDuration, showcaseLoop>>

orientation == <<cubeQuaternion, targetQuaternion, cubeTilt, targetTilt>>

pointer == <<isDragging, dragDelta, lastDragDelta, momentum>>

faceCycle == <<previouslyVisibleFaces, faceImageIndices, faceChangeTimestamps,
               totalImageCycles, risen>>

textures == <<materialMaps, pendingLoads>>

history == <<unpausedTotal, advances>>

lifecycle == <<isUnmounted, animationFrameId>>

assignment == <<showcaseImageOffset, pendingSkippedFaceUpdate,
                pendingUpdateTriggered, faceWrites, pendingApplied>>

---------------------------------------------------------------------------
(* Bounds of the model *)

MaxTime == 5        \* ticks and calls stop when performance.now() gets here
MaxDelta == 2       \* longest time between two consecutive ticks or calls
MaxDuration == 2    \* longest configured faceDuration

MaxImages == 7      \* longest image list
MaxClock == 3201    \* slow frames stop when performance.now() gets here
FrameTime == 1400   \* a slow frame takes this long, or 200 ms longer
MaxDragClock == 33  \* the frames of a short drag stop when performance.now() gets here
MaxSpinClock == 560 \* the frames after a short drag stop when performance.now() gets here
MaxDecayTicks == 32 \* most frames a momentum is looked at before it is taken to run on
MaxLapClock == 100  \* the frames of the showcase laps stop when performance.now() gets here

(* Program constants *)

DefaultFaceDuration == 3000

COOLDOWN_MS == 3000

MOMENTUM_THRESHOLD == 5     \* 0.0001 rad is 5.73 millidegrees

MOMENTUM_MINIMUM == 1718    \* 0.03 rad is 1718.87 millidegrees

QuarterTurn == 90000

TimeOrigin == 1000000       \* Date.now() when performance.now() is 0

---------------------------------------------------------------------------
(* Faces, directions and the 24 axis-aligned orientations.                 *)
(* A direction is a face normal: 0 +X, 1 -X, 2 +Y, 3 -Y, 4 +Z, 5 -Z.     *)
(* An orientation is the triple of the images of +X, +Y and +Z.            *)

Faces == 0 .. 5

faceNormals == [f \in Faces |-> f]

Opposite(d) == IF d % 2 = 0 THEN d + 1 ELSE d - 1

applyQuaternion(d, q) ==
    IF d % 2 = 0 THEN q[(d \div 2) + 1] ELSE Opposite(q[((d - 1) \div 2) + 1])

multiply(a, b) ==
    <<applyQuaternion(b[1], a), applyQuaternion(b[2], a), applyQuaternion(b[3], a)>>

Identity == <<0, 2, 4>>

NoQuaternion == <<>>

NoTexture == -1

Null == -1               \* pendingSkippedFaceUpdate = null

(* No writer wrote a face in the frame *)
NoWrites == [batch |-> {}, pending |-> {}, cycling |-> {}, bypassed |-> {}]

RotX90 == <<0, 4, 3>>    \* quarter turn about the world right axis
RotY90 == <<5, 2, 0>>    \* quarter turn about the world up axis
RotZ90 == <<2, 1, 4>>

QuarterTurns ==
    { RotX90, RotY90, RotZ90,
      multiply(RotX90, multiply(RotX90, RotX90)),
      multiply(RotY90, multiply(RotY90, RotY90)),
      multiply(RotZ90, multiply(RotZ90, RotZ90)) }

dot(a, b) == IF a = b THEN 1 ELSE IF a = Opposite(b) THEN -1 ELSE 0

(* The trace of the rotation between q and t: 3 when they are equal, less  *)
(* the larger the angle between them.                                      *)
Alignment(q, t) == dot(q[1], t[1]) + dot(q[2], t[2]) + dot(q[3], t[3])

(* quaternion.slerp(target, factor), 0 < factor < 1 *)
slerp(q, t) ==
    IF q = t THEN {q}
    ELSE {q} \cup { n \in { multiply(g, q) : g \in QuarterTurns } :
                    Alignment(n, t) > Alignment(q, t) }

InitialOrientation == Identity

copyOfIdentity(q) == Identity

(* quaternion.copy(q): the value of q, not q itself *)
copy(q) == q

calculateRotationForFace(cubeExists, faceIndex) ==
    IF ~cubeExists THEN Identity
    ELSE CASE faceIndex = 0 -> <<5, 2, 0>>
           [] faceIndex = 1 -> <<4, 2, 1>>
           [] faceIndex = 2 -> <<0, 5, 2>>
           [] faceIndex = 3 -> <<0, 4, 3>>
           [] faceIndex = 4 -> <<1, 2, 5>>
           [] faceIndex = 5 -> Identity

Power(g, k) ==
    CASE k % 4 = 0 -> Identity
      [] k % 4 = 1 -> g
      [] k % 4 = 2 -> multiply(g, g)
      [] k % 4 = 3 -> multiply(g, multiply(g, g))

Orientations ==
    { multiply(Power(RotY90, i), multiply(Power(RotX90, j), Power(RotZ90, k))) :
        i \in 0 .. 3, j \in 0 .. 3, k \in 0 .. 3 }

cameraDirection == 5     \* camera.getWorldDirection(): (0, 0, -1)

(* The face of orientation q whose normal is turned exactly along d *)
FaceTurnedTo(q, d) == CHOOSE f \in Faces : applyQuaternion(faceNormals[f], q) = d

(* The tilts an orientation of cell q can have *)
Tilts(q) ==
    { c \in SUBSET (Faces \ { FaceTurnedTo(q, cameraDirection),
                              FaceTurnedTo(q, Opposite(cameraDirection)) }) :
        \A f \in c : Opposite(f) \notin c }

InitialTilt == {1, 2}    \* rotation.x = -15 degrees, rotation.y = -25 degrees

(* worldNormal.dot(cameraDirection), up to a positive factor *)
NormalDotCamera(f, q, tilt) ==
    LET square == dot(applyQuaternion(faceNormals[f], q), cameraDirection)
    IN  IF square # 0 THEN 2 * square
        ELSE IF f \in tilt THEN 1
        ELSE IF Opposite(f) \in tilt THEN -1
        ELSE 0

getVisibleFaces(cubeExists, q, tilt) ==
    IF ~cubeExists THEN {}
    ELSE { i \in Faces : NormalDotCamera(i, q, tilt) > 0 }

(* rotateOnWorldAxis(axis, angle): the cells the rotated orientation can    *)
(* fall in, g being the quarter turn about the axis                         *)
rotateOnWorldAxis(q, g, angle) ==
    { multiply(Power(g, angle \div QuarterTurn), q) }
      \cup (IF angle % QuarterTurn # 0
            THEN { multiply(Power(g, (angle \div QuarterTurn) + 1), q) }
            ELSE {})

Abs(x) == IF x < 0 THEN -x ELSE x

(* x * num / den, rounded towards zero *)
Scaled(x, num, den) ==
    IF x >= 0 THEN (x * num) \div den ELSE -((-x * num) \div den)

DragRotation(delta) == 300 * delta                     \* DRAG_SENSITIVITY

MomentumOf(rotation) == Scaled(rotation, 12, 100)      \* MOMENTUM_SCALE

DecayedNever(m) == m

Decayed(m) == Scaled(m, 9, 10)                         \* MOMENTUM_DECAY

DateNow(t) == TimeOrigin + t

---------------------------------------------------------------------------
(* The host's configuration *)

Num(n) == 2 * n

IsFace(entry) == entry % 2 = 0 /\ (entry \div 2) \in Faces

FaceOf(entry) == entry \div 2

SequenceChoices ==
    { <<>>,
      <<Num(0)>>,
      <<Num(0), Num(2)>>,
      <<Num(4), Num(6)>>,
      <<Num(-1), Num(0)>>,
      <<Num(2) + 1>> }

PropsChoices ==
    [ enabled : BOOLEAN,
      sequence : SequenceChoices,
      faceDuration : {1, MaxDuration},
      autoStart : BOOLEAN,
      loop : BOOLEAN,
      images : {6} ]

ValidSequence(seq) ==
    /\ Len(seq) > 0
    /\ \A i \in 1 .. Len(seq) : IsFace(seq[i])

InitialState ==
    /\ phase = "loading"
    /\ now = 1
    /\ cubeQuaternion = NoQuaternion
    /\ targetQuaternion = NoQuaternion
    /\ isShowcaseActive = FALSE
    /\ isShowcasePaused = FALSE
    /\ showcaseCurrentIndex = 0
    /\ showcaseAccumulatedTime = 0
    /\ lastShowcaseFrameTime = 0
    /\ showcaseSequence = <<>>
    /\ showcaseFaceDuration = DefaultFaceDuration
    /\ showcaseLoop = TRUE
    /\ emits = <<>>
    /\ lastOp = "setup"
    /\ unpausedTotal = 0
    /\ advances = 0
    /\ cubeTilt = {}
    /\ targetTilt = {}
    /\ isDragging = FALSE
    /\ dragDelta = <<0, 0>>
    /\ lastDragDelta = <<0, 0>>
    /\ momentum = <<0, 0>>
    /\ previouslyVisibleFaces = {}
    /\ faceImageIndices = [f \in Faces |-> f]
    /\ faceChangeTimestamps = [f \in Faces |-> 0]
    /\ totalImageCycles = 0
    /\ materialMaps = [f \in Faces |-> NoTexture]
    /\ pendingLoads = {}
    /\ drivers = {}
    /\ risen = {}
    /\ isUnmounted = FALSE
    /\ animationFrameId = 0
    /\ showcaseImageOffset = 0
    /\ pendingSkippedFaceUpdate = Null
    /\ pendingUpdateTriggered = FALSE
    /\ faceWrites = NoWrites
    /\ pendingApplied = 0

Init ==
    /\ props \in PropsChoices
    /\ InitialState

---------------------------------------------------------------------------
(* The parts of a frame that initThreeJS's first animate() and every later *)
(* animate() share: the drag and momentum rotation, and face cycling.      *)

MomentumRuns(m) ==
    Abs(m[1]) > MOMENTUM_THRESHOLD \/ Abs(m[2]) > MOMENTUM_THRESHOLD

(* <<applyRotationX, applyRotationY>> *)
AppliedRotation ==
    IF isDragging
    THEN <<DragRotation(dragDelta[2]), DragRotation(dragDelta[1])>>
    ELSE IF MomentumRuns(momentum) THEN momentum ELSE <<0, 0>>

MomentumAfterFrameIgnoringHold ==
    IF isDragging
    THEN << IF Abs(AppliedRotation[1]) > MOMENTUM_MINIMUM
            THEN MomentumOf(AppliedRotation[1]) ELSE 0,
            IF Abs(AppliedRotation[2]) > MOMENTUM_MINIMUM
            THEN MomentumOf(AppliedRotation[2]) ELSE 0 >>
    ELSE IF MomentumRuns(momentum)
         THEN <<Decayed(momentum[1]), Decayed(momentum[2])>>
         ELSE momentum

MomentumAfterFrame ==
    IF isDragging
    THEN LET isFastMovementX == /\ dragDelta[2] # lastDragDelta[2]
                                /\ Abs(AppliedRotation[1]) > MOMENTUM_MINIMUM
             isFastMovementY == /\ dragDelta[1] # lastDragDelta[1]
                                /\ Abs(AppliedRotation[2]) > MOMENTUM_MINIMUM
         IN  << IF isFastMovementX THEN MomentumOf(AppliedRotation[1]) ELSE 0,
                IF isFastMovementY THEN MomentumOf(AppliedRotation[2]) ELSE 0 >>
    ELSE IF MomentumRuns(momentum)
         THEN <<Decayed(momentum[1]), Decayed(momentum[2])>>
         ELSE momentum

(* rotationHelper.quaternion after the two rotateOnWorldAxis calls *)
HelperQuaternions(target) ==
    UNION { rotateOnWorldAxis(h, RotY90, AppliedRotation[2]) :
              h \in rotateOnWorldAxis(target, RotX90, AppliedRotation[1]) }

(* What rotated the cube besides the showcase *)
PointerDrivers ==
    IF AppliedRotation = <<0, 0>> THEN {}
    ELSE IF isDragging THEN {"drag"} ELSE {"momentum"}

(* The tilts of the cube after a frame that took it from cell q with tilt  *)
(* a to cell q2: unchanged when nothing turned it.  The pointer's rotation *)
(* turns one face into or out of the tilt.  Otherwise the cube has the     *)
(* tilt it had, the tilt of the goal it turns to, or the face that was     *)
(* square to the camera axis before, as far as cell q2 admits them.        *)
TiltsAfter(q, a, q2, goal, free, rest) ==
    LET admitted == UNION Tilts(q2)
    IN  IF rest THEN {a}
        ELSE IF free
        THEN { c \in Tilts(q2) :
                 Cardinality((c \ a) \cup ((a \cap admitted) \ c)) <= 1 }
        ELSE { c \cap admitted :
                 c \in { a, goal, {FaceTurnedTo(q, cameraDirection)} } }

(* The tilt of the target after the momentum has turned it into cell q2 *)
TiltCarried(a, q2) == a \cap UNION Tilts(q2)

nextImageIndexWithoutWrap(index, imageCount) ==
    IF index + 1 < imageCount THEN index + 1 ELSE index

nextImageIndex(index, imageCount) == (index + 1) % imageCount

CooldownNever(dateNow, timestamp) == FALSE

CooldownActive(dateNow, timestamp) == dateNow - timestamp < COOLDOWN_MS

AdvancingFacesWhileVisible(nowVisibleFaces, dateNow) ==
    { f \in nowVisibleFaces :
        ~CooldownActive(dateNow, faceChangeTimestamps[f]) }

(* The faces the loop over nowVisibleFaces does not skip *)
AdvancingFaces(nowVisibleFaces, dateNow) ==
    { f \in nowVisibleFaces :
        /\ f \notin previouslyVisibleFaces
        /\ ~CooldownActive(dateNow, faceChangeTimestamps[f]) }

(* updateFaceTexture up to its await: the loads it starts *)
updateFaceTexture(cubeExists, faceIndex, imageIndex) ==
    IF ~cubeExists \/ imageIndex \notin 0 .. (props.images - 1) THEN {}
    ELSE { <<faceIndex, imageIndex>> }

faceCycling(nowVisibleFaces, dateNow) ==
    LET advancing == AdvancingFaces(nowVisibleFaces, dateNow)
    IN  /\ faceImageIndices' =
              [f \in Faces |->
                 IF f \in advancing
                 THEN nextImageIndex(faceImageIndices[f], props.images)
                 ELSE faceImageIndices[f]]
        /\ pendingLoads' = pendingLoads \cup
              UNION { updateFaceTexture(TRUE, f, faceImageIndices'[f]) :
                        f \in advancing }
        /\ faceChangeTimestamps' =
              [f \in Faces |->
                 IF f \in advancing THEN dateNow ELSE faceChangeTimestamps[f]]
        /\ totalImageCycles' = totalImageCycles + Cardinality(advancing)
        /\ previouslyVisibleFaces' = nowVisibleFaces
        /\ risen' = nowVisibleFaces \ previouslyVisibleFaces

---------------------------------------------------------------------------
(* initThreeJS: the textures have loaded; builds the cube, runs animate()  *)
(* once (the showcase is inactive, so it only resets the frame time) and   *)
(* then initShowcaseMode().                                                *)

SequenceAccepted(seq) ==
    /\ Len(seq) # 0
    /\ { i \in 1 .. Len(seq) : seq[i] < Num(0) \/ seq[i] > Num(5) } = {}

initShowcaseMode(currentTime) ==
    IF ~props.enabled \/ ~SequenceAccepted(props.sequence)
    THEN /\ lastShowcaseFrameTime' = 0
         /\ UNCHANGED <<showcaseSequence, showcaseFaceDuration, showcaseLoop,
                        isShowcaseActive, showcaseCurrentIndex,
                        showcaseAccumulatedTime, history>>
    ELSE /\ showcaseSequence' = props.sequence
         /\ showcaseFaceDuration' = props.faceDuration
         /\ showcaseLoop' = props.loop
         /\ IF props.autoStart
            THEN /\ isShowcaseActive' = TRUE
                 /\ showcaseCurrentIndex' = 0
                 /\ showcaseAccumulatedTime' = 0
                 /\ lastShowcaseFrameTime' = currentTime
                 /\ unpausedTotal' = 0
                 /\ advances' = 0
            ELSE /\ lastShowcaseFrameTime' = 0
                 /\ UNCHANGED <<isShowcaseActive, showcaseCurrentIndex,
                                showcaseAccumulatedTime, history>>

initThreeJS(dt) ==
    /\ phase = "loading"
    /\ phase' = "ready"
    /\ now' = now + dt
    /\ materialMaps' = [f \in Faces |-> f]
    /\ \E helper \in HelperQuaternions(InitialOrientation) :
         /\ cubeQuaternion' \in slerp(InitialOrientation, helper)
         /\ targetQuaternion' =
               IF ~isDragging /\ MomentumRuns(MomentumAfterFrame)
               THEN helper ELSE InitialOrientation
         /\ cubeTilt' \in TiltsAfter(InitialOrientation, InitialTilt,
                                     cubeQuaternion', InitialTilt,
                                     AppliedRotation # <<0, 0>>,
                                     AppliedRotation = <<0, 0>>)
         /\ targetTilt' = TiltCarried(InitialTilt, targetQuaternion')
    /\ momentum' = MomentumAfterFrame
    /\ lastDragDelta' = IF isDragging THEN dragDelta ELSE <<0, 0>>
    /\ drivers' = PointerDrivers
    /\ faceCycling(getVisibleFaces(TRUE, cubeQuaternion', cubeTilt'), DateNow(now'))
    /\ initShowcaseMode(now')
    /\ emits' = <<>>
    /\ lastOp' = "initThreeJS"
    /\ animationFrameId' = 1
    /\ UNCHANGED <<isUnmounted, assignment>>
    /\ UNCHANGED <<props, isShowcasePaused, isDragging, dragDelta>>

(* One of the initial loads rejects: Promise.all rejects, initThreeJS       *)
(* rethrows and nothing after the await runs.                               *)
initThreeJSRejected(dt) ==
    /\ phase = "loading"
    /\ phase' = "failed"
    /\ now' = now + dt
    /\ emits' = <<>>
    /\ lastOp' = "initThreeJSRejected"
    /\ UNCHANGED <<lifecycle, assignment>>
    /\ UNCHANGED <<sequencer, config, history, orientation, pointer, faceCycle,
                   textures, drivers>>

---------------------------------------------------------------------------
(* The public API *)

startShowcaseWithoutSequenceCheck(dt) ==
    /\ now' = now + dt
    /\ lastOp' = "startShowcase"
    /\ UNCHANGED <<lifecycle, assignment>>
    /\ IF ~props.enabled
       THEN /\ emits' = <<>>
            /\ UNCHANGED <<sequencer, history>>
       ELSE /\ isShowcaseActive' = TRUE
            /\ showcaseCurrentIndex' = 0
            /\ showcaseAccumulatedTime' = 0
            /\ lastShowcaseFrameTime' = now'
            /\ emits' = <<"showcaseStarted">>
            /\ unpausedTotal' = 0
            /\ advances' = 0
            /\ UNCHANGED isShowcasePaused
    /\ UNCHANGED <<config, phase, orientation,
                   pointer, faceCycle, textures, drivers>>

startShowcase(dt) ==
    /\ now' = now + dt
    /\ lastOp' = "startShowcase"
    /\ UNCHANGED <<lifecycle, assignment>>
    /\ IF ~props.enabled \/ Len(showcaseSequence) = 0
       THEN /\ emits' = <<>>
            /\ UNCHANGED <<sequencer, history>>
       ELSE /\ isShowcaseActive' = TRUE
            /\ showcaseCurrentIndex' = 0
            /\ showcaseAccumulatedTime' = 0
            /\ lastShowcaseFrameTime' = now'
            /\ emits' = <<"showcaseStarted">>
            /\ unpausedTotal' = 0
            /\ advances' = 0
            /\ UNCHANGED isShowcasePaused
    /\ UNCHANGED <<config, phase, orientation,
                   pointer, faceCycle, textures, drivers>>

stopShowcase(dt) ==
    /\ now' = now + dt
    /\ lastOp' = "stopShowcase"
    /\ UNCHANGED <<lifecycle, assignment>>
    /\ isShowcaseActive' = FALSE
    /\ lastShowcaseFrameTime' = 0
    /\ emits' = <<"showcaseStopped">>
    /\ UNCHANGED <<isShowcasePaused, showcaseCurrentIndex, showcaseAccumulatedTime,
                   history, config, phase, orientation,
                   pointer, faceCycle, textures, drivers>>

toggleShowcase(dt) ==
    IF isShowcaseActive THEN stopShowcase(dt) ELSE startShowcase(dt)

pauseShowcase(dt) ==
    /\ now' = now + dt
    /\ lastOp' = "pauseShowcase"
    /\ UNCHANGED <<lifecycle, assignment>>
    /\ IF ~isShowcaseActive
       THEN /\ emits' = <<>>
            /\ UNCHANGED isShowcasePaused
       ELSE /\ isShowcasePaused' = TRUE
            /\ emits' = <<"showcasePaused">>
    /\ UNCHANGED <<isShowcaseActive, showcaseCurrentIndex, showcaseAccumulatedTime,
                   lastShowcaseFrameTime, history, config, phase, orientation,
                   pointer, faceCycle, textures, drivers>>

resumeShowcaseStaleBaseline(dt) ==
    /\ now' = now + dt
    /\ lastOp' = "resumeShowcase"
    /\ UNCHANGED <<lifecycle, assignment>>
    /\ IF ~isShowcaseActive \/ ~isShowcasePaused
       THEN /\ emits' = <<>>
            /\ UNCHANGED <<isShowcasePaused, lastShowcaseFrameTime>>
       ELSE /\ isShowcasePaused' = FALSE
            /\ emits' = <<"showcaseResumed">>
            /\ UNCHANGED lastShowcaseFrameTime
    /\ UNCHANGED <<isShowcaseActive, showcaseCurrentIndex, showcaseAccumulatedTime,
                   history, config, phase, orientation,
                   pointer, faceCycle, textures, drivers>>

resumeShowcaseWithoutPausedCheck(dt) ==
    /\ now' = now + dt
    /\ lastOp' = "resumeShowcase"
    /\ UNCHANGED <<lifecycle, assignment>>
    /\ IF ~isShowcaseActive
       THEN /\ emits' = <<>>
            /\ UNCHANGED <<isShowcasePaused, lastShowcaseFrameTime>>
       ELSE /\ isShowcasePaused' = FALSE
            /\ lastShowcaseFrameTime' = now'
            /\ emits' = <<"showcaseResumed">>
    /\ UNCHANGED <<isShowcaseActive, showcaseCurrentIndex, showcaseAccumulatedTime,
                   history, config, phase, orientation,
                   pointer, faceCycle, textures, drivers>>

resumeShowcaseFromStart(dt) ==
    /\ now' = now + dt
    /\ lastOp' = "resumeShowcase"
    /\ UNCHANGED <<lifecycle, assignment>>
    /\ IF ~isShowcaseActive \/ ~isShowcasePaused
       THEN /\ emits' = <<>>
            /\ UNCHANGED <<isShowcasePaused, lastShowcaseFrameTime,
                           showcaseCurrentIndex, showcaseAccumulatedTime>>
       ELSE /\ isShowcasePaused' = FALSE
            /\ lastShowcaseFrameTime' = now'
            /\ showcaseCurrentIndex' = 0
            /\ showcaseAccumulatedTime' = 0
            /\ emits' = <<"showcaseResumed">>
    /\ UNCHANGED <<isShowcaseActive, history, config, phase, orientation,
                   pointer, faceCycle, textures, drivers>>

resumeShowcase(dt) ==
    /\ now' = now + dt
    /\ lastOp' = "resumeShowcase"
    /\ UNCHANGED <<lifecycle, assignment>>
    /\ IF ~isShowcaseActive \/ ~isShowcasePaused
       THEN /\ emits' = <<>>
            /\ UNCHANGED <<isShowcasePaused, lastShowcaseFrameTime>>
       ELSE /\ isShowcasePaused' = FALSE
            /\ lastShowcaseFrameTime' = now'
            /\ emits' = <<"showcaseResumed">>
    /\ UNCHANGED <<isShowcaseActive, showcaseCurrentIndex, showcaseAccumulatedTime,
                   history, config, phase, orientation,
                   pointer, faceCycle, textures, drivers>>

---------------------------------------------------------------------------
(* animate: one frame of the render loop *)

DeltaTime(currentTime, frameTime) == currentTime - frameTime

FaceDurationElapsed(accumulated, duration) == accumulated > duration

NextIndexWithoutWrap(index, length) ==
    IF index + 1 < length THEN index + 1 ELSE index

NextIndex(index, length) == (index + 1) % length

SequenceEndedIgnoringLoop(index, loop) == index = 0

SequenceEnded(index, loop) == index = 0 /\ ~loop

showcaseTargetFace(active, sequence, index) ==
    IF ~active \/ Len(sequence) = 0 THEN Num(0) ELSE sequence[index + 1]

animate(dt) ==
    /\ phase = "ready"
    /\ animationFrameId = 1
    /\ now' = now + dt
    /\ lastOp' = "animate"
    /\ UNCHANGED <<lifecycle, assignment>>
    /\ momentum' = MomentumAfterFrame
    /\ lastDragDelta' = IF isDragging THEN dragDelta ELSE <<0, 0>>
    /\ \E helper \in HelperQuaternions(targetQuaternion) :
       \E rotated \in slerp(cubeQuaternion, helper) :
         LET tracksMomentum == ~isDragging /\ MomentumRuns(MomentumAfterFrame)
             momentumTarget == IF tracksMomentum THEN helper ELSE targetQuaternion
             free == AppliedRotation # <<0, 0>>
             atTarget == /\ ~free
                         /\ cubeQuaternion = targetQuaternion
                         /\ cubeTilt = targetTilt
         IN
         IF isShowcaseActive /\ Len(showcaseSequence) > 0
         THEN LET currentTime == now'
                  frameTime == IF lastShowcaseFrameTime = 0 THEN currentTime
                               ELSE lastShowcaseFrameTime
                  deltaTime == DeltaTime(currentTime, frameTime)
                  accumulated == showcaseAccumulatedTime + deltaTime
                  elapsed == FaceDurationElapsed(accumulated, showcaseFaceDuration)
                  index == NextIndex(showcaseCurrentIndex, Len(showcaseSequence))
                  ended == SequenceEnded(index, showcaseLoop)
              IN  /\ IF isShowcasePaused
                     THEN /\ lastShowcaseFrameTime' = currentTime
                          /\ emits' = <<>>
                          /\ UNCHANGED <<isShowcaseActive, showcaseCurrentIndex,
                                         showcaseAccumulatedTime, history>>
                     ELSE /\ unpausedTotal' = unpausedTotal + deltaTime
                          /\ IF elapsed
                             THEN /\ showcaseAccumulatedTime' = 0
                                  /\ showcaseCurrentIndex' = index
                                  /\ advances' = advances + 1
                                  /\ isShowcaseActive' = ~ended
                                  /\ lastShowcaseFrameTime' =
                                        IF ended THEN 0 ELSE currentTime
                                  /\ emits' = IF ended THEN <<"showcaseCompleted">>
                                              ELSE <<>>
                             ELSE /\ showcaseAccumulatedTime' = accumulated
                                  /\ lastShowcaseFrameTime' = currentTime
                                  /\ emits' = <<>>
                                  /\ UNCHANGED <<isShowcaseActive,
                                                 showcaseCurrentIndex, advances>>
                  /\ LET face == showcaseTargetFace(isShowcaseActive',
                                      showcaseSequence, showcaseCurrentIndex')
                         targetRotation == calculateRotationForFace(TRUE, FaceOf(face))
                     IN  IF IsFace(face)
                         THEN /\ cubeQuaternion' \in slerp(rotated, targetRotation)
                              /\ targetQuaternion' = copy(cubeQuaternion')
                              /\ cubeTilt' \in
                                    TiltsAfter(cubeQuaternion, cubeTilt, cubeQuaternion',
                                               {}, free,
                                               /\ atTarget
                                               /\ cubeQuaternion = targetRotation
                                               /\ cubeTilt = {})
                              /\ targetTilt' = cubeTilt'
                              /\ drivers' = PointerDrivers \cup {"showcase"}
                              /\ faceCycling(getVisibleFaces(TRUE, cubeQuaternion',
                                                             cubeTilt'),
                                             DateNow(now'))
                         ELSE \* faceNormals[face] is undefined: the frame throws here
                              /\ cubeQuaternion' = rotated
                              /\ targetQuaternion' = momentumTarget
                              /\ cubeTilt' \in
                                    TiltsAfter(cubeQuaternion, cubeTilt, rotated,
                                               targetTilt, free, atTarget)
                              /\ targetTilt' = IF tracksMomentum
                                               THEN TiltCarried(targetTilt, helper)
                                               ELSE targetTilt
                              /\ drivers' = PointerDrivers
                              /\ UNCHANGED <<faceCycle, pendingLoads>>
         ELSE /\ cubeQuaternion' = rotated
              /\ targetQuaternion' = momentumTarget
              /\ cubeTilt' \in
                    TiltsAfter(cubeQuaternion, cubeTilt, rotated,
                               targetTilt, free, atTarget)
              /\ targetTilt' = IF tracksMomentum
                               THEN TiltCarried(targetTilt, helper)
                               ELSE targetTilt
              /\ drivers' = PointerDrivers
              /\ lastShowcaseFrameTime' = 0
              /\ emits' = <<>>
              /\ faceCycling(getVisibleFaces(TRUE, cubeQuaternion', cubeTilt'),
                             DateNow(now'))
              /\ UNCHANGED <<isShowcaseActive, showcaseCurrentIndex,
                             showcaseAccumulatedTime, history>>
    /\ UNCHANGED <<config, phase, isShowcasePaused, isDragging, dragDelta,
                   materialMaps>>

---------------------------------------------------------------------------
(* The pointer handlers of useCubeNavigation, with watch(isDragging),      *)
(* which Vue runs before the next frame.                                   *)

dragEnabled == TRUE      \* MagicCube.vue passes no dragEnabled ref

handlePointerDown(dt) ==
    /\ now' = now + dt
    /\ lastOp' = "handlePointerDown"
    /\ UNCHANGED <<lifecycle, assignment>>
    /\ emits' = <<>>
    /\ IF ~dragEnabled
       THEN UNCHANGED <<isDragging, dragDelta>>
       ELSE /\ isDragging' = TRUE
            /\ dragDelta' = <<0, 0>>
    /\ UNCHANGED <<sequencer, config, history, phase, orientation, lastDragDelta,
                   momentum, faceCycle, textures, drivers>>

handlePointerMove(dt, x, y) ==
    /\ now' = now + dt
    /\ lastOp' = "handlePointerMove"
    /\ UNCHANGED <<lifecycle, assignment>>
    /\ emits' = <<>>
    /\ dragDelta' = IF isDragging THEN <<x, y>> ELSE dragDelta
    /\ UNCHANGED <<sequencer, config, history, phase, orientation, isDragging,
                   lastDragDelta, momentum, faceCycle, textures, drivers>>

handlePointerUp(dt) ==
    /\ now' = now + dt
    /\ lastOp' = "handlePointerUp"
    /\ UNCHANGED <<lifecycle, assignment>>
    /\ emits' = <<>>
    /\ isDragging' = FALSE
    /\ dragDelta' = <<0, 0>>
    /\ IF isDragging /\ phase = "ready"
       THEN /\ targetQuaternion' = cubeQuaternion
            /\ targetTilt' = cubeTilt
       ELSE UNCHANGED <<targetQuaternion, targetTilt>>
    /\ UNCHANGED <<sequencer, config, history, phase, cubeQuaternion, cubeTilt,
                   lastDragDelta, momentum, faceCycle, textures, drivers>>

---------------------------------------------------------------------------
(* onUnmounted cancels the frame that is requested, if one is, and         *)
(* disposes of the materials of the cube, if there is one.                 *)

onUnmounted(dt) ==
    /\ ~isUnmounted
    /\ isUnmounted' = TRUE
    /\ animationFrameId' = 0
    /\ now' = now + dt
    /\ lastOp' = "onUnmounted"
    /\ emits' = <<>>
    /\ UNCHANGED assignment
    /\ UNCHANGED <<sequencer, config, history, phase, orientation, pointer,
                   faceCycle, textures, drivers>>

---------------------------------------------------------------------------
(* The continuation of updateFaceTexture after its await *)

textureLoaded(dt, load) ==
    /\ load \in pendingLoads
    /\ now' = now + dt
    /\ lastOp' = "textureLoaded"
    /\ UNCHANGED <<lifecycle, assignment>>
    /\ emits' = <<>>
    /\ materialMaps' = [materialMaps EXCEPT ![load[1]] = load[2]]
    /\ pendingLoads' = pendingLoads \ {load}
    /\ UNCHANGED <<sequencer, config, history, phase, orientation, pointer,
                   faceCycle, drivers>>

textureFailedRollingBack(dt, load) ==
    /\ load \in pendingLoads
    /\ now' = now + dt
    /\ lastOp' = "textureFailed"
    /\ UNCHANGED <<lifecycle, assignment>>
    /\ emits' = <<>>
    /\ pendingLoads' = pendingLoads \ {load}
    /\ faceImageIndices' = [faceImageIndices EXCEPT ![load[1]] = materialMaps[load[1]]]
    /\ UNCHANGED <<sequencer, config, history, phase, orientation, pointer,
                   previouslyVisibleFaces, faceChangeTimestamps, totalImageCycles,
                   risen, materialMaps, drivers>>

textureFailed(dt, load) ==
    /\ load \in pendingLoads
    /\ now' = now + dt
    /\ lastOp' = "textureFailed"
    /\ UNCHANGED <<lifecycle, assignment>>
    /\ emits' = <<>>
    /\ pendingLoads' = pendingLoads \ {load}
    /\ UNCHANGED <<sequencer, config, history, phase, orientation, pointer,
                   faceCycle, materialMaps, drivers>>

---------------------------------------------------------------------------

Next ==
    \/ \E dt \in 0 .. MaxDelta : now + dt <= MaxTime /\ initThreeJS(dt)
    \/ \E dt \in 0 .. MaxDelta : now + dt <= MaxTime /\ initThreeJSRejected(dt)
    \/ \E dt \in 0 .. MaxDelta : now + dt <= MaxTime /\ startShowcase(dt)
    \/ \E dt \in 0 .. MaxDelta : now + dt <= MaxTime /\ stopShowcase(dt)
    \/ \E dt \in 0 .. MaxDelta : now + dt <= MaxTime /\ toggleShowcase(dt)
    \/ \E dt \in 0 .. MaxDelta : now + dt <= MaxTime /\ pauseShowcase(dt)
    \/ \E dt \in 0 .. MaxDelta : now + dt <= MaxTime /\ resumeShowcase(dt)
    \/ \E dt \in 1 .. MaxDelta : now + dt <= MaxTime /\ animate(dt)

Spec == Init /\ [][Next]_vars

---------------------------------------------------------------------------
(* Scenario A of the specification: sequence [0,2,4], faceDuration 1000,   *)
(* loop, the showcase started once within the first 20 ms and frames       *)
(* 16 ms apart from then on.  The cube turns without lag: a showcase frame *)
(* that can bring it nearer to the showcased face does, and leaves it      *)
(* square to the camera.                                                   *)

PromptTurn ==
    isShowcaseActive'
        => LET face == showcaseTargetFace(TRUE, showcaseSequence,
                                          showcaseCurrentIndex')
               targetRotation == calculateRotationForFace(TRUE, FaceOf(face))
           IN  /\ cubeTilt' = {}
               /\ cubeQuaternion' = cubeQuaternion
                    => cubeQuaternion = targetRotation

InitScenarioA ==
    /\ InitialState
    /\ props = [ enabled |-> TRUE, sequence |-> <<Num(0), Num(2), Num(4)>>,
                 faceDuration |-> 1000,
                 autoStart |-> FALSE, loop |-> TRUE, images |-> 6 ]

NextScenarioA ==
    \/ initThreeJS(0)
    \/ \E dt \in 0 .. 15 :
          /\ now + dt <= 20
          /\ phase = "ready"
          /\ ~isShowcaseActive
          /\ startShowcase(dt)
    \/ now + 16 <= 3400 /\ animate(16) /\ PromptTurn

SpecScenarioA == InitScenarioA /\ [][NextScenarioA]_vars

---------------------------------------------------------------------------
(* A run of steady frames: the API is called between frames and no frame   *)
(* is longer than one face duration.                                       *)

NextSteadyFrames ==
    \/ initThreeJS(0)
    \/ startShowcase(0)
    \/ \E dt \in 1 .. MaxDelta :
          /\ dt <= showcaseFaceDuration
          /\ now + dt <= MaxTime
          /\ animate(dt)

SpecSteadyFrames == Init /\ [][NextSteadyFrames]_vars

---------------------------------------------------------------------------
(* The component with the pointer: horizontal strokes to the right, their  *)
(* releases and showcase starts happen between slow frames.                *)

DragChoices == { 0, 300 }

FrameTimes == { FrameTime, FrameTime + 200 }

InteractionProps ==
    [ enabled : {TRUE},
      sequence : { <<Num(0), Num(2)>> },
      faceDuration : {DefaultFaceDuration},
      autoStart : {FALSE},
      loop : {TRUE},
      images : {6} ]

InitInteraction ==
    /\ props \in InteractionProps
    /\ InitialState

FramesToCome == now + FrameTime <= MaxClock

NextInteraction ==
    \/ initThreeJS(0)
    \/ initThreeJSRejected(0)
    \/ FramesToCome /\ startShowcase(0)
    \/ FramesToCome /\ handlePointerDown(0)
    \/ \E x \in DragChoices : FramesToCome /\ handlePointerMove(0, x, 0)
    \/ FramesToCome /\ isDragging /\ handlePointerUp(0)
    \/ \E dt \in FrameTimes : now + dt <= MaxClock /\ animate(dt)

SpecInteraction == InitInteraction /\ [][NextInteraction]_vars

---------------------------------------------------------------------------
(* The component with its texture loads: the showcase turns the cube, and  *)
(* every load started by a frame is settled, or not, in any order.         *)

TextureProps ==
    [ enabled : {TRUE},
      sequence : { <<Num(0), Num(2)>> },
      faceDuration : {FrameTime},
      autoStart : {TRUE},
      loop : {TRUE},
      images : 6 .. MaxImages ]

InitTextures ==
    /\ props \in TextureProps
    /\ InitialState

NextTextures ==
    \/ initThreeJS(0)
    \/ initThreeJSRejected(0)
    \/ \E load \in pendingLoads : textureLoaded(0, load)
    \/ \E load \in pendingLoads : textureFailed(0, load)
    \/ \E dt \in FrameTimes : now + dt <= MaxClock /\ animate(dt)

SpecTextures == InitTextures /\ [][NextTextures]_vars

---------------------------------------------------------------------------
(* Properties *)

Emitted(event) == \E i \in 1 .. Len(emits) : emits[i] = event

(* C1: startShowcase() with an empty sequence or one holding an entry      *)
(* outside 0..5 is refused: the sequencer is and stays Idle, nothing is    *)
(* emitted, and index, accumulated time, Orientation and Target            *)
(* Orientation are unchanged.                                              *)
C1_StartRefusedOnMalformedSequence ==
    [][ (lastOp' = "startShowcase" /\ ~ValidSequence(props.sequence))
          => /\ ~isShowcaseActive
             /\ ~isShowcaseActive'
             /\ emits' = <<>>
             /\ UNCHANGED <<showcaseCurrentIndex, showcaseAccumulatedTime,
                            cubeQuaternion, targetQuaternion>> ]_vars

C1_Witness ==
    /\ lastOp = "startShowcase"
    /\ phase = "ready"
    /\ props.enabled
    /\ props.sequence = <<Num(4), Num(6)>>
    /\ ~isShowcaseActive
    /\ emits = <<>>

(* C2: right after a startShowcase() that started the showcase, the        *)
(* sequencer is Active and not Paused, with index 0 and accumulated        *)
(* time 0.                                                                 *)
C2_StartGivesActiveUnpaused ==
    (lastOp = "startShowcase" /\ Emitted("showcaseStarted"))
        => /\ isShowcaseActive
           /\ ~isShowcasePaused
           /\ showcaseCurrentIndex = 0
           /\ showcaseAccumulatedTime = 0

(* C3: every step that takes the sequencer from Idle to Active emits       *)
(* exactly one showcase-started event.                                     *)
C3_EveryStartEmitsStarted ==
    [][ (~isShowcaseActive /\ isShowcaseActive')
          => emits' = <<"showcaseStarted">> ]_vars

(* C4: an index advance that wraps to 0 ends the run with exactly one      *)
(* showcase-completed event when loop is false, and keeps the sequencer    *)
(* Active without that event when loop is true; showcase-completed is      *)
(* emitted by no other step.                                               *)
C4_CompletionOnWrap ==
    [][ /\ (advances' = advances + 1 /\ showcaseCurrentIndex' = 0)
            => IF showcaseLoop
               THEN isShowcaseActive' /\ ~Emitted("showcaseCompleted")'
               ELSE ~isShowcaseActive' /\ emits' = <<"showcaseCompleted">>
        /\ Emitted("showcaseCompleted")'
            => /\ ~showcaseLoop
               /\ isShowcaseActive
               /\ ~isShowcaseActive'
               /\ advances' = advances + 1
               /\ showcaseCurrentIndex = Len(showcaseSequence) - 1
               /\ showcaseCurrentIndex' = 0 ]_vars

C4_Witness ==
    /\ lastOp = "animate"
    /\ emits = <<"showcaseCompleted">>
    /\ ~isShowcaseActive
    /\ Len(showcaseSequence) = 2
    /\ advances = 2

(* C5: the first frame after an effective resumeShowcase() adds to the     *)
(* accumulated time exactly the time elapsed since the resume call, and    *)
(* the index advances on it only if that sum exceeds the face duration.    *)
C5_ResumeRebaselines ==
    [][ (lastOp = "resumeShowcase" /\ Emitted("showcaseResumed") /\ lastOp' = "animate")
          => LET sinceResume == now' - now
                 accumulated == showcaseAccumulatedTime + sinceResume
             IN  IF accumulated > showcaseFaceDuration
                 THEN showcaseAccumulatedTime' = 0
                 ELSE /\ showcaseAccumulatedTime' = accumulated
                      /\ showcaseCurrentIndex' = showcaseCurrentIndex ]_vars

C5_Witness ==
    /\ lastOp = "resumeShowcase"
    /\ emits = <<"showcaseResumed">>
    /\ isShowcaseActive
    /\ ~isShowcasePaused
    /\ showcaseAccumulatedTime > 0
    /\ now < MaxTime

(* C6: pauseShowcase() called while Idle or while already Paused changes   *)
(* no state and emits nothing.                                             *)
C6_PauseOnlyWhenActiveUnpaused ==
    [][ (lastOp' = "pauseShowcase" /\ (~isShowcaseActive \/ isShowcasePaused))
          => /\ emits' = <<>>
             /\ UNCHANGED <<sequencer, orientation>> ]_vars

(* C7: resumeShowcase() called while Idle or while Active and not Paused   *)
(* changes no state, the delta-time baseline included, and emits nothing.  *)
C7_ResumeOnlyWhenPaused ==
    [][ (lastOp' = "resumeShowcase" /\ ~(isShowcaseActive /\ isShowcasePaused))
          => /\ emits' = <<>>
             /\ UNCHANGED <<sequencer, orientation>> ]_vars

C7_Witness ==
    /\ lastOp = "resumeShowcase"
    /\ emits = <<>>
    /\ isShowcaseActive
    /\ ~isShowcasePaused
    /\ lastShowcaseFrameTime < now

(* C8: the paused flag is never true while the active flag is false.       *)
C8_PausedImpliesActive == isShowcasePaused => isShowcaseActive

(* C9: in Scenario A, once 3100 ms of frames have been accumulated the     *)
(* sequence index is 0 after exactly three advances, and no                *)
(* showcase-completed event is ever emitted.                               *)
C9_ScenarioA ==
    /\ ~Emitted("showcaseCompleted")
    /\ (isShowcaseActive /\ unpausedTotal >= 3100 /\ unpausedTotal < 3116)
          => (showcaseCurrentIndex = 0 /\ advances = 3)

C9_Witness ==
    /\ isShowcaseActive
    /\ unpausedTotal >= 3100
    /\ unpausedTotal < 3116
    /\ showcaseCurrentIndex = 0

(* C10: the k-th index advance of a run happens on the first frame at      *)
(* which the unpaused time since Start exceeds k x faceDuration: after     *)
(* every frame the number of advances made is the number of whole face     *)
(* durations the unpaused time has exceeded.                               *)
C10_NoDrift ==
    (isShowcaseActive /\ ~isShowcasePaused /\ lastOp = "animate")
        => /\ advances * showcaseFaceDuration < unpausedTotal \/ advances = 0
           /\ unpausedTotal <= (advances + 1) * showcaseFaceDuration

---------------------------------------------------------------------------
(* The component with one short drag right after mount and the frames that *)
(* follow its release, 16 ms apart.  The pointer moves by a few pixels:    *)
(* 5 px turn the cube by less than MOMENTUM_MINIMUM, 6 px by more.  While  *)
(* the momentum runs on from one frame to the next the cube and the target *)
(* stay in the cells the first frame of the spin took them to.             *)

ShortDragChoices == { 5, 6 }

QuietSpin ==
    (drivers = {"momentum"} /\ drivers' = {"momentum"}) => UNCHANGED orientation

NextMomentum ==
    \/ initThreeJS(0)
    \/ lastOp = "initThreeJS" /\ handlePointerDown(0)
    \/ \E x \in ShortDragChoices : isDragging /\ handlePointerMove(0, x, 0)
    \/ isDragging /\ handlePointerUp(0)
    \/ /\ now + 16 <= (IF isDragging THEN MaxDragClock ELSE MaxSpinClock)
       /\ animate(16)
       /\ QuietSpin

SpecMomentum == InitInteraction /\ [][NextMomentum]_vars

---------------------------------------------------------------------------
(* The component whose showcase is started and stopped between slow        *)
(* frames, with strokes of the pointer to the right.                       *)

NextShowcaseExit ==
    \/ initThreeJS(0)
    \/ FramesToCome /\ phase = "ready" /\ startShowcase(0)
    \/ FramesToCome /\ isShowcaseActive /\ stopShowcase(0)
    \/ FramesToCome /\ phase = "ready" /\ handlePointerDown(0)
    \/ \E x \in DragChoices : FramesToCome /\ isDragging /\ handlePointerMove(0, x, 0)
    \/ FramesToCome /\ isDragging /\ handlePointerUp(0)
    \/ now + FrameTime <= MaxClock /\ animate(FrameTime)

SpecShowcaseExit == InitInteraction /\ [][NextShowcaseExit]_vars

---------------------------------------------------------------------------
(* The component unmounted at any moment: before or after the initial      *)
(* textures have loaded, with or without texture loads under way.          *)

NextUnmount ==
    \/ initThreeJS(0)
    \/ initThreeJSRejected(0)
    \/ onUnmounted(0)
    \/ \E load \in pendingLoads : textureLoaded(0, load)
    \/ \E load \in pendingLoads : textureFailed(0, load)
    \/ now + FrameTime <= MaxClock /\ animate(FrameTime)

SpecUnmount == InitInteraction /\ [][NextUnmount]_vars

---------------------------------------------------------------------------
(* The component with image assignment in showcase mode (part_006).  Every *)
(* lap of a looping showcase assigns the next six images to the faces in   *)
(* one batch, but for one skipped face, which is updated once the first    *)
(* face of the sequence is aligned with the camera axis.  Face cycling     *)
(* handles rising edges without advancing while the showcase runs.         *)

translateIndexRotating(i) == (i + 1) % 6

translateIndex(i) == IF i % 2 = 0 THEN i + 1 ELSE i - 1

assignImagesUnwrapped(skipFace, offset, indices, maps, cubeExists) ==
    LET imageCount == props.images
        written == { i \in Faces : /\ Num(i) # skipFace
                                   /\ indices[i] # offset + i }
    IN  [ written |-> written,
          indices |-> [i \in Faces |->
                         IF i \in written THEN offset + i ELSE indices[i]],
          maps |-> [i \in Faces |->
                      IF i \in written /\ cubeExists
                      THEN (offset + translateIndex(i)) % imageCount
                      ELSE maps[i]] ]

(* assignImagesToFacesForShowcase(skipFace): the faces it writes, and what *)
(* it leaves in faceImageIndices and in the maps of the materials          *)
assignImagesToFacesForShowcase(skipFace, offset, indices, maps, cubeExists) ==
    LET imageCount == props.images
        written == { i \in Faces : /\ Num(i) # skipFace
                                   /\ indices[i] # (offset + i) % imageCount }
    IN  [ written |-> written,
          indices |-> [i \in Faces |->
                         IF i \in written THEN (offset + i) % imageCount
                         ELSE indices[i]],
          maps |-> [i \in Faces |->
                      IF i \in written /\ cubeExists
                      THEN (offset + translateIndex(i)) % imageCount
                      ELSE maps[i]] ]

(* Math.max(0, lastFaceInSequence - 1), an entry like those of the sequence *)
faceToSkip(sequence) ==
    LET lastFaceInSequence == sequence[Len(sequence)]
    IN  IF lastFaceInSequence - Num(1) > 0 THEN lastFaceInSequence - Num(1) ELSE 0

(* alignment >= 0.999 for the normal of face f: it holds where the face is *)
(* square to the camera axis, cannot hold in a cell where another face is, *)
(* and depends on how far the cube leans where it leans.                   *)
AlignedOutcomes(f, q, tilt) ==
    IF dot(applyQuaternion(faceNormals[f], q), cameraDirection) # 1 THEN {FALSE}
    ELSE IF tilt = {} THEN {TRUE}
    ELSE BOOLEAN

AfterPendingUpdateStillArmed(skippedFace) ==
    [pending |-> skippedFace, triggered |-> FALSE]

(* The pending update and its one-shot flag once the update is applied *)
AfterPendingUpdate(skippedFace) ==
    [pending |-> Null, triggered |-> TRUE]

(* The pending update of the skipped face in a frame: the outcomes of the  *)
(* block, after which the frame returns or goes on to face cycling         *)
PendingUpdateOutcomes(pending, triggered, offset, indices, maps, q, tilt) ==
    LET imageCount == props.images
        kept == [pending |-> pending, triggered |-> triggered,
                 indices |-> indices, maps |-> maps, written |-> {},
                 applied |-> FALSE, returns |-> FALSE]
        firstFaceInSequence == showcaseSequence[1]
        skippedFace == FaceOf(pending)
        after == AfterPendingUpdate(pending)
    IN  IF pending = Null \/ triggered THEN { kept }
        ELSE IF ~IsFace(pending)
        THEN { [kept EXCEPT !.pending = Null, !.returns = TRUE] }
        ELSE IF ~IsFace(firstFaceInSequence)
        THEN { [kept EXCEPT !.returns = TRUE] }   \* faceNormals[...] is undefined
        ELSE { IF aligned
               THEN [ pending |-> after.pending,
                      triggered |-> after.triggered,
                      indices |-> [indices EXCEPT ![skippedFace] =
                                      (offset + skippedFace) % imageCount],
                      maps |-> [maps EXCEPT ![skippedFace] =
                                   (offset + translateIndex(skippedFace)) % imageCount],
                      written |-> {skippedFace},
                      applied |-> TRUE,
                      returns |-> FALSE ]
               ELSE kept :
               aligned \in AlignedOutcomes(FaceOf(firstFaceInSequence), q, tilt) }

isInShowcaseNever(active, paused) == FALSE

isInShowcase(active, paused) == active /\ ~paused

(* The loop over nowVisibleFaces: the faces it handles, the ones of them   *)
(* it advances, and the ones it handles although their cooldown runs       *)
FaceCycled(indices, nowVisibleFaces, dateNow, inShowcase) ==
    LET edges == nowVisibleFaces \ previouslyVisibleFaces
        handled == { f \in edges :
                       inShowcase \/ ~CooldownActive(dateNow, faceChangeTimestamps[f]) }
        advancing == IF inShowcase THEN {} ELSE handled
    IN  [ handled |-> handled,
          advancing |-> advancing,
          bypassed |-> { f \in handled :
                           CooldownActive(dateNow, faceChangeTimestamps[f]) },
          indices |-> [f \in Faces |->
                         IF f \in advancing
                         THEN nextImageIndex(indices[f], props.images)
                         ELSE indices[f]] ]

(* What a frame that ran face cycling leaves behind *)
faceCyclingAfterAssignment(cycled, maps, nowVisibleFaces, dateNow) ==
    /\ faceImageIndices' = cycled.indices
    /\ materialMaps' = maps
    /\ pendingLoads' = pendingLoads \cup
          UNION { updateFaceTexture(TRUE, f, cycled.indices[f]) :
                    f \in cycled.advancing }
    /\ faceChangeTimestamps' =
          [f \in Faces |->
             IF f \in cycled.handled THEN dateNow ELSE faceChangeTimestamps[f]]
    /\ totalImageCycles' = totalImageCycles + Cardinality(cycled.handled)
    /\ risen' = nowVisibleFaces \ previouslyVisibleFaces
    /\ previouslyVisibleFaces' = nowVisibleFaces

InitialTiltWithAssignment == {1}    \* rotation.x = 0, rotation.y = -45 degrees

initThreeJSWithAssignment(dt) ==
    /\ phase = "loading"
    /\ phase' = "ready"
    /\ now' = now + dt
    /\ \E helper \in HelperQuaternions(InitialOrientation) :
         /\ cubeQuaternion' \in slerp(InitialOrientation, helper)
         /\ targetQuaternion' =
               IF ~isDragging /\ MomentumRuns(MomentumAfterFrame)
               THEN helper ELSE InitialOrientation
         /\ cubeTilt' \in TiltsAfter(InitialOrientation, InitialTiltWithAssignment,
                                     cubeQuaternion', InitialTiltWithAssignment,
                                     AppliedRotation # <<0, 0>>,
                                     AppliedRotation = <<0, 0>>)
         /\ targetTilt' = TiltCarried(InitialTiltWithAssignment, targetQuaternion')
    /\ momentum' = MomentumAfterFrame
    /\ lastDragDelta' = IF isDragging THEN dragDelta ELSE <<0, 0>>
    /\ drivers' = PointerDrivers
    /\ LET nowVisibleFaces == getVisibleFaces(TRUE, cubeQuaternion', cubeTilt')
           cycled == FaceCycled([f \in Faces |-> f], nowVisibleFaces,
                                DateNow(now'), FALSE)
           autoStarts == /\ props.enabled
                         /\ SequenceAccepted(props.sequence)
                         /\ props.autoStart
           reordered == [f \in Faces |-> translateIndex(f)]
           batch == IF autoStarts
                    THEN assignImagesToFacesForShowcase(Null, 0, cycled.indices,
                                                        reordered, TRUE)
                    ELSE [written |-> {}, indices |-> cycled.indices,
                          maps |-> reordered]
       IN  /\ faceCyclingAfterAssignment([cycled EXCEPT !.indices = batch.indices],
                                         batch.maps, nowVisibleFaces, DateNow(now'))
           /\ faceWrites' = [NoWrites EXCEPT !.cycling = cycled.advancing]
    /\ initShowcaseMode(now')
    /\ showcaseImageOffset' = 0
    /\ pendingSkippedFaceUpdate' = Null
    /\ UNCHANGED <<pendingUpdateTriggered, pendingApplied>>
    /\ emits' = <<>>
    /\ lastOp' = "initThreeJS"
    /\ animationFrameId' = 1
    /\ UNCHANGED isUnmounted
    /\ UNCHANGED <<props, isShowcasePaused, isDragging, dragDelta>>

startShowcaseWithAssignment(dt) ==
    /\ now' = now + dt
    /\ lastOp' = "startShowcase"
    /\ UNCHANGED lifecycle
    /\ IF ~props.enabled \/ Len(showcaseSequence) = 0
       THEN /\ emits' = <<>>
            /\ UNCHANGED <<sequencer, history, assignment, faceCycle, textures>>
       ELSE /\ showcaseImageOffset' = 0
            /\ pendingSkippedFaceUpdate' = Null
            /\ previouslyVisibleFaces' =
                  IF phase = "ready"
                  THEN getVisibleFaces(TRUE, cubeQuaternion, cubeTilt)
                  ELSE previouslyVisibleFaces
            /\ LET batch == assignImagesToFacesForShowcase(
                               Null, 0, faceImageIndices, materialMaps,
                               phase = "ready")
               IN  /\ faceImageIndices' = batch.indices
                   /\ materialMaps' = batch.maps
            /\ isShowcaseActive' = TRUE
            /\ showcaseCurrentIndex' = 0
            /\ showcaseAccumulatedTime' = 0
            /\ lastShowcaseFrameTime' = now'
            /\ emits' = <<"showcaseStarted">>
            /\ unpausedTotal' = 0
            /\ advances' = 0
            /\ UNCHANGED <<isShowcasePaused, pendingUpdateTriggered, faceWrites,
                           pendingApplied, faceChangeTimestamps, totalImageCycles,
                           risen, pendingLoads>>
    /\ UNCHANGED <<config, phase, orientation, pointer, drivers>>

animateWithAssignment(dt) ==
    /\ phase = "ready"
    /\ animationFrameId = 1
    /\ now' = now + dt
    /\ lastOp' = "animate"
    /\ UNCHANGED lifecycle
    /\ momentum' = MomentumAfterFrame
    /\ lastDragDelta' = IF isDragging THEN dragDelta ELSE <<0, 0>>
    /\ LET showcasing == isShowcaseActive /\ Len(showcaseSequence) > 0
           currentTime == now'
           frameTime == IF lastShowcaseFrameTime = 0 THEN currentTime
                        ELSE lastShowcaseFrameTime
           deltaTime == DeltaTime(currentTime, frameTime)
           accumulated == showcaseAccumulatedTime + deltaTime
           turns == /\ showcasing
                    /\ ~isShowcasePaused
                    /\ FaceDurationElapsed(accumulated, showcaseFaceDuration)
           wasLastInSequence == showcaseCurrentIndex = Len(showcaseSequence) - 1
           index == NextIndex(showcaseCurrentIndex, Len(showcaseSequence))
           ended == turns /\ SequenceEnded(index, showcaseLoop)
           lap == turns /\ wasLastInSequence /\ showcaseLoop
           offset == IF lap THEN (showcaseImageOffset + 6) % props.images
                     ELSE showcaseImageOffset
           batch == IF lap
                    THEN assignImagesToFacesForShowcase(
                            faceToSkip(showcaseSequence), offset,
                            faceImageIndices, materialMaps, TRUE)
                    ELSE [written |-> {}, indices |-> faceImageIndices,
                          maps |-> materialMaps]
           armed == IF lap THEN faceToSkip(showcaseSequence)
                    ELSE pendingSkippedFaceUpdate
           flag == IF lap THEN FALSE ELSE pendingUpdateTriggered
           applications == IF lap THEN 0 ELSE pendingApplied
       IN  /\ isShowcaseActive' = (isShowcaseActive /\ ~ended)
           /\ showcaseCurrentIndex' = IF turns THEN index ELSE showcaseCurrentIndex
           /\ showcaseAccumulatedTime' =
                 IF turns THEN 0
                 ELSE IF showcasing /\ ~isShowcasePaused THEN accumulated
                 ELSE showcaseAccumulatedTime
           /\ lastShowcaseFrameTime' =
                 IF showcasing /\ ~ended THEN currentTime ELSE 0
           /\ unpausedTotal' = IF showcasing /\ ~isShowcasePaused
                               THEN unpausedTotal + deltaTime ELSE unpausedTotal
           /\ advances' = IF turns THEN advances + 1 ELSE advances
           /\ emits' = IF ended THEN <<"showcaseCompleted">> ELSE <<>>
           /\ showcaseImageOffset' = offset
           /\ \E helper \in HelperQuaternions(targetQuaternion) :
              \E rotated \in slerp(cubeQuaternion, helper) :
                LET tracksMomentum == ~isDragging /\ MomentumRuns(MomentumAfterFrame)
                    momentumTarget == IF tracksMomentum THEN helper
                                      ELSE targetQuaternion
                    free == AppliedRotation # <<0, 0>>
                    atTarget == /\ ~free
                                /\ cubeQuaternion = targetQuaternion
                                /\ cubeTilt = targetTilt
                    face == showcaseTargetFace(isShowcaseActive', showcaseSequence,
                                               showcaseCurrentIndex')
                    targetRotation == calculateRotationForFace(TRUE, FaceOf(face))
                IN  /\ IF showcasing /\ IsFace(face)
                       THEN /\ cubeQuaternion' \in slerp(rotated, targetRotation)
                            /\ targetQuaternion' = copy(cubeQuaternion')
                            /\ cubeTilt' \in
                                  TiltsAfter(cubeQuaternion, cubeTilt, cubeQuaternion',
                                             {}, free,
                                             /\ atTarget
                                             /\ cubeQuaternion = targetRotation
                                             /\ cubeTilt = {})
                            /\ targetTilt' = cubeTilt'
                            /\ drivers' = PointerDrivers \cup {"showcase"}
                       ELSE /\ cubeQuaternion' = rotated
                            /\ targetQuaternion' = momentumTarget
                            /\ cubeTilt' \in
                                  TiltsAfter(cubeQuaternion, cubeTilt, rotated,
                                             targetTilt, free, atTarget)
                            /\ targetTilt' = IF tracksMomentum
                                             THEN TiltCarried(targetTilt, helper)
                                             ELSE targetTilt
                            /\ drivers' = PointerDrivers
                    /\ IF showcasing /\ ~IsFace(face)
                       THEN \* faceNormals[face] is undefined: the frame throws here
                            /\ pendingSkippedFaceUpdate' = armed
                            /\ pendingUpdateTriggered' = flag
                            /\ pendingApplied' = applications
                            /\ faceImageIndices' = batch.indices
                            /\ materialMaps' = batch.maps
                            /\ faceWrites' = [NoWrites EXCEPT !.batch = batch.written]
                            /\ UNCHANGED <<previouslyVisibleFaces, faceChangeTimestamps,
                                           totalImageCycles, risen, pendingLoads>>
                       ELSE \E update \in PendingUpdateOutcomes(
                                             armed, flag, offset, batch.indices,
                                             batch.maps, cubeQuaternion', cubeTilt') :
                            LET nowVisibleFaces ==
                                   getVisibleFaces(TRUE, cubeQuaternion', cubeTilt')
                                cycled ==
                                   FaceCycled(update.indices, nowVisibleFaces,
                                              DateNow(now'),
                                              isInShowcase(isShowcaseActive',
                                                           isShowcasePaused))
                            IN  /\ pendingSkippedFaceUpdate' = update.pending
                                /\ pendingUpdateTriggered' = update.triggered
                                /\ pendingApplied' =
                                      IF update.applied THEN applications + 1
                                      ELSE applications
                                /\ IF update.returns
                                   THEN /\ faceImageIndices' = update.indices
                                        /\ materialMaps' = update.maps
                                        /\ faceWrites' =
                                              [NoWrites EXCEPT !.batch = batch.written]
                                        /\ UNCHANGED <<previouslyVisibleFaces,
                                                       faceChangeTimestamps,
                                                       totalImageCycles, risen,
                                                       pendingLoads>>
                                   ELSE /\ faceCyclingAfterAssignment(
                                              cycled, update.maps, nowVisibleFaces,
                                              DateNow(now'))
                                        /\ faceWrites' =
                                              [batch |-> batch.written,
                                               pending |-> update.written,
                                               cycling |-> cycled.advancing,
                                               bypassed |-> cycled.bypassed]
    /\ UNCHANGED <<config, phase, isShowcasePaused, isDragging, dragDelta>>

(* const dragEnabled = computed(() => !isShowcaseActive.value) *)
dragEnabledWithAssignment == ~isShowcaseActive

handlePointerDownWithAssignment(dt) ==
    /\ now' = now + dt
    /\ lastOp' = "handlePointerDown"
    /\ UNCHANGED <<lifecycle, assignment>>
    /\ emits' = <<>>
    /\ IF ~dragEnabledWithAssignment
       THEN UNCHANGED <<isDragging, dragDelta>>
       ELSE /\ isDragging' = TRUE
            /\ dragDelta' = <<0, 0>>
    /\ UNCHANGED <<sequencer, config, history, phase, orientation, lastDragDelta,
                   momentum, faceCycle, textures, drivers>>

(* A looping showcase of seven images over the faces 0 and 4, started,     *)
(* paused, resumed and stopped between frames 16 ms apart in which a face  *)
(* duration of 1 ms always elapses, and drags while it is inactive.        *)

AssignmentProps ==
    [ enabled : {TRUE},
      sequence : { <<Num(0), Num(4)>> },
      faceDuration : {1},
      autoStart : {FALSE},
      loop : {TRUE},
      images : {MaxImages} ]

InitAssignment ==
    /\ props \in AssignmentProps
    /\ InitialState

LapDragChoices == { 5 }

LapFramesToCome == now + 16 <= MaxLapClock

NextAssignment ==
    \/ initThreeJSWithAssignment(0)
    \/ lastOp = "initThreeJS" /\ startShowcaseWithAssignment(0)
    \/ LapFramesToCome /\ isShowcaseActive /\ stopShowcase(0)
    \/ LapFramesToCome /\ isShowcaseActive /\ ~isShowcasePaused
          /\ pendingSkippedFaceUpdate # Null /\ pauseShowcase(0)
    \/ LapFramesToCome /\ isShowcasePaused /\ resumeShowcase(0)
    \/ LapFramesToCome /\ lastOp = "stopShowcase"
          /\ handlePointerDownWithAssignment(0)
    \/ \E x \in LapDragChoices :
          LapFramesToCome /\ isDragging /\ dragDelta = <<0, 0>>
             /\ handlePointerMove(0, x, 0)
    \/ LapFramesToCome /\ isDragging /\ handlePointerUp(0)
    \/ LapFramesToCome /\ animateWithAssignment(16) /\ PromptTurn

SpecAssignment == InitAssignment /\ [][NextAssignment]_vars

---------------------------------------------------------------------------
(* The component of part_006 with the pointer going down, moving and up    *)
(* at any moment, before and after the showcase is started.                *)

DragGateFramesToCome == now + 16 <= MaxDragClock

NextDragGate ==
    \/ initThreeJSWithAssignment(0)
    \/ DragGateFramesToCome /\ phase = "ready" /\ ~isShowcaseActive
          /\ startShowcaseWithAssignment(0)
    \/ DragGateFramesToCome /\ isShowcaseActive /\ stopShowcase(0)
    \/ DragGateFramesToCome /\ phase = "ready" /\ ~isDragging
          /\ handlePointerDownWithAssignment(0)
    \/ \E x \in LapDragChoices :
          DragGateFramesToCome /\ isDragging /\ dragDelta = <<0, 0>>
             /\ handlePointerMove(0, x, 0)
    \/ DragGateFramesToCome /\ isDragging /\ handlePointerUp(0)
    \/ DragGateFramesToCome /\ animateWithAssignment(16)

SpecDragGate == InitAssignment /\ [][NextDragGate]_vars

---------------------------------------------------------------------------
(* The component of part_006 with its texture loads: six or seven images,  *)
(* the showcase started after the first frame, and every load a frame      *)
(* started completing at any later moment.                                 *)

AssignedTexturesProps ==
    [ enabled : {TRUE},
      sequence : { <<Num(0), Num(4)>> },
      faceDuration : {1},
      autoStart : {FALSE},
      loop : {TRUE},
      images : 6 .. MaxImages ]

InitAssignedTextures ==
    /\ props \in AssignedTexturesProps
    /\ InitialState

NextAssignedTextures ==
    \/ initThreeJSWithAssignment(0)
    \/ lastOp = "initThreeJS" /\ startShowcaseWithAssignment(0)
    \/ \E load \in pendingLoads : textureLoaded(0, load)
    \/ LapFramesToCome /\ animateWithAssignment(16) /\ PromptTurn

SpecAssignedTextures == InitAssignedTextures /\ [][NextAssignedTextures]_vars

---------------------------------------------------------------------------
(* MagicCube.vue with texture loads that all succeed, in any order *)

NextLoadsSucceed ==
    \/ initThreeJS(0)
    \/ \E load \in pendingLoads : textureLoaded(0, load)
    \/ \E dt \in FrameTimes : now + dt <= MaxClock /\ animate(dt)

SpecLoadsSucceed == InitTextures /\ [][NextLoadsSucceed]_vars

---------------------------------------------------------------------------
(* Face cycling, textures and the pointer *)

ShowcaseRunning == isShowcaseActive /\ ~isShowcasePaused

(* The faces whose rotated outward normal points to the camera, which is   *)
(* on the +Z axis and looks at the origin along -Z                         *)
FacesTowardsCamera(q, tilt) ==
    { f \in Faces : NormalDotCamera(f, q, tilt) < 0 }

(* C11: in a frame a face's image index advances only if the face is in    *)
(* that frame's Visible Set and was not in the Visible Set of the frame    *)
(* before; a face visible in both frames, or leaving, does not advance.    *)
C11_AdvanceOnRisingEdgeOnly ==
    [][ lastOp' = "animate"
          => \A f \in Faces :
               faceImageIndices'[f] # faceImageIndices[f]
                 => /\ f \in getVisibleFaces(TRUE, cubeQuaternion', cubeTilt')
                    /\ f \notin getVisibleFaces(TRUE, cubeQuaternion, cubeTilt) ]_vars

C11_Witness ==
    /\ lastOp = "animate"
    /\ \E f \in risen : faceChangeTimestamps[f] = DateNow(now)
    /\ previouslyVisibleFaces \ risen # {}

(* C12: outside a running showcase a face entering the Visible Set less    *)
(* than 3000 ms after its last recorded change keeps its image index and   *)
(* its timestamp, and an index advances only when at least 3000 ms have    *)
(* passed since the face's last recorded change.                           *)
C12_CooldownSuppressesEdge ==
    [][ (lastOp' = "animate" /\ ~ShowcaseRunning')
          => \A f \in Faces :
               LET rising == /\ f \in getVisibleFaces(TRUE, cubeQuaternion', cubeTilt')
                             /\ f \notin getVisibleFaces(TRUE, cubeQuaternion, cubeTilt)
                   sinceChange == DateNow(now') - faceChangeTimestamps[f]
               IN  /\ (rising /\ sinceChange < COOLDOWN_MS)
                        => /\ faceImageIndices'[f] = faceImageIndices[f]
                           /\ faceChangeTimestamps'[f] = faceChangeTimestamps[f]
                   /\ faceImageIndices'[f] # faceImageIndices[f]
                        => sinceChange >= COOLDOWN_MS ]_vars

C12_Witness ==
    /\ lastOp = "animate"
    /\ ~ShowcaseRunning
    /\ \E f \in risen :
         /\ faceChangeTimestamps[f] # 0
         /\ faceChangeTimestamps[f] < DateNow(now)
         /\ DateNow(now) - faceChangeTimestamps[f] < COOLDOWN_MS

(* C13: after the first frame, the one initThreeJS runs, every face still  *)
(* has its initial image index and the cycle counter is still 0.           *)
C13_FirstFrameAdvancesNothing ==
    lastOp = "initThreeJS"
        => /\ faceImageIndices = [f \in Faces |-> f]
           /\ totalImageCycles = 0

Advanced[times \in Nat, index \in Nat, imageCount \in Nat] ==
    IF times = 0 THEN index
    ELSE nextImageIndex(Advanced[times - 1, index, imageCount], imageCount)

(* C14: N advances of an image index, N the length of the image list,      *)
(* return it to the value it started from, and on the way the index takes  *)
(* every one of the N values exactly once.                                 *)
C14_CycleReturnsToStart ==
    \A start \in 0 .. (props.images - 1) :
        /\ Advanced[props.images, start, props.images] = start
        /\ { Advanced[k, start, props.images] : k \in 0 .. (props.images - 1) }
              = 0 .. (props.images - 1)

C14_Witness ==
    /\ props.images = 6
    /\ faceImageIndices[5] = 0
    /\ totalImageCycles > 0

(* C15: two distinct faces that are both in the Visible Set never have the *)
(* same image index.                                                       *)
C15_VisibleFacesShowDistinctImages ==
    phase = "ready"
        => \A f, g \in getVisibleFaces(TRUE, cubeQuaternion, cubeTilt) :
             f # g => faceImageIndices[f] # faceImageIndices[g]

(* C16: for each of the 24 axis-aligned orientations getVisibleFaces()     *)
(* returns exactly the faces whose rotated normal points to the camera.    *)
C16_VisibleFacesFaceTheCamera ==
    phase = "ready"
        => \A q \in Orientations :
             getVisibleFaces(TRUE, q, {}) = FacesTowardsCamera(q, {})

(* C17: when a texture load started for an image advance fails, the face   *)
(* keeps its advanced image index and its previous texture, no face's      *)
(* index, timestamp or texture changes, and frames keep running.           *)
C17_FailedLoadChangesNothing ==
    [][ lastOp' = "textureFailed"
          => /\ faceImageIndices' = faceImageIndices
             /\ faceChangeTimestamps' = faceChangeTimestamps
             /\ materialMaps' = materialMaps
             /\ phase' = "ready" ]_vars

C17_Witness ==
    /\ lastOp = "textureFailed"
    /\ \E f \in Faces :
         /\ faceImageIndices[f] # materialMaps[f]
         /\ \A load \in pendingLoads : load[1] # f

(* C18: when one image of the batch loaded at initialisation fails, the    *)
(* other images are still applied to their faces and frames run.           *)
C18_InitialBatchSurvivesFailure ==
    lastOp = "initThreeJSRejected"
        => /\ phase = "ready"
           /\ \E f \in Faces : materialMaps[f] # NoTexture

(* C19: in every frame at most one of drag, momentum and showcase rotates  *)
(* the cube; a frame in which the showcase rotates it applies neither a    *)
(* drag nor a momentum rotation.                                           *)
C19_OneDriverPerFrame == Cardinality(drivers) <= 1

(* C20: after the release of a drag the Target Orientation is the          *)
(* Orientation the cube had at the release, and the next frame, if the     *)
(* momentum is zero, leaves the Orientation unchanged.                     *)
C20_ReleaseHoldsOrientation ==
    [][ /\ (lastOp' = "handlePointerUp" /\ isDragging /\ phase = "ready")
            => /\ targetQuaternion' = cubeQuaternion
               /\ targetTilt' = cubeTilt
               /\ cubeQuaternion' = cubeQuaternion
        /\ (lastOp = "handlePointerUp" /\ lastOp' = "animate"
               /\ momentum = <<0, 0>>)
            => /\ cubeQuaternion' = cubeQuaternion
               /\ cubeTilt' = cubeTilt ]_vars

---------------------------------------------------------------------------
(* Momentum *)

(* The frames the momentum m is still applied in, 1 + k if more than k *)
RECURSIVE TicksLeftWithin(_, _)
TicksLeftWithin(m, k) ==
    IF ~MomentumRuns(m) THEN 0
    ELSE IF k = 0 THEN 1
    ELSE 1 + TicksLeftWithin(<<Decayed(m[1]), Decayed(m[2])>>, k - 1)

TicksLeft(m) == TicksLeftWithin(m, MaxDecayTicks)

(* C21: a frame of a drag that sees the drag delta the frame before it saw *)
(* leaves the momentum at zero, the pointer handlers do not change the     *)
(* momentum, and so a drag released after such a frame leaves zero         *)
(* momentum, whatever the pointer did before.                              *)
C21_HoldLeavesNoMomentum ==
    [][ /\ (lastOp' = "animate" /\ isDragging /\ dragDelta = lastDragDelta)
            => momentum' = <<0, 0>>
        /\ lastOp' \in {"handlePointerDown", "handlePointerMove", "handlePointerUp"}
            => momentum' = momentum ]_vars

C21_Witness ==
    /\ lastOp = "handlePointerUp"
    /\ lastDragDelta = <<6, 0>>
    /\ momentum = <<0, 0>>

(* C22: a drag whose delta changes from frame to frame by less than the    *)
(* pixels that turn the cube by MOMENTUM_MINIMUM leaves zero momentum when *)
(* it is released.                                                         *)
C22_SlowDragLeavesNoMomentum ==
    [][ (lastOp' = "animate" /\ isDragging
           /\ Abs(DragRotation(dragDelta[1] - lastDragDelta[1])) <= MOMENTUM_MINIMUM
           /\ Abs(DragRotation(dragDelta[2] - lastDragDelta[2])) <= MOMENTUM_MINIMUM)
          => momentum' = <<0, 0>> ]_vars

(* C23: with no drag, a momentum above the stop threshold is applied and   *)
(* gets one frame nearer to the threshold in every frame, from at most     *)
(* MaxDecayTicks frames away; once at or below the threshold no frame      *)
(* applies it or changes it.                                               *)
C23_MomentumDecaysAndStaysStopped ==
    [][ (lastOp' = "animate" /\ ~isDragging)
          => IF MomentumRuns(momentum)
             THEN /\ TicksLeft(momentum) <= MaxDecayTicks
                  /\ TicksLeft(momentum') = TicksLeft(momentum) - 1
                  /\ "momentum" \in drivers'
             ELSE /\ momentum' = momentum
                  /\ "momentum" \notin drivers' ]_vars

C23_Witness ==
    /\ lastOp = "animate"
    /\ ~isDragging
    /\ momentum # <<0, 0>>
    /\ ~MomentumRuns(momentum)
    /\ drivers = {}

(* C29: once the momentum has fallen to the stop threshold, with no drag   *)
(* and no showcase, the Orientation is the Target Orientation, and no      *)
(* later idle frame changes the Orientation.                               *)
C29_CubeRestsWhereMomentumEnds ==
    [][ (lastOp' = "animate" /\ ~isDragging /\ ~isShowcaseActive
           /\ momentum # <<0, 0>> /\ ~MomentumRuns(momentum))
          => /\ cubeQuaternion = targetQuaternion
             /\ cubeTilt = targetTilt
             /\ cubeQuaternion' = cubeQuaternion
             /\ cubeTilt' = cubeTilt ]_vars

(* C30: after every frame at the end of which the showcase is active the  *)
(* Target Orientation is the Orientation, and the first frame after the    *)
(* showcase was stopped, with no drag and no momentum above the stop       *)
(* threshold, leaves the Orientation unchanged.                            *)
C30_ShowcaseLeavesTargetAtCube ==
    [][ /\ (lastOp' = "animate" /\ isShowcaseActive')
            => /\ targetQuaternion' = cubeQuaternion'
               /\ targetTilt' = cubeTilt'
        /\ (lastOp' = "animate" /\ "showcase" \in drivers /\ ~isShowcaseActive
               /\ ~isDragging /\ ~MomentumRuns(momentum))
            => /\ cubeQuaternion' = cubeQuaternion
               /\ cubeTilt' = cubeTilt ]_vars

C30_Witness ==
    /\ lastOp = "animate"
    /\ ~isShowcaseActive
    /\ unpausedTotal > 0
    /\ drivers = {}
    /\ ~isDragging
    /\ cubeQuaternion # InitialOrientation
    /\ cubeQuaternion = targetQuaternion

---------------------------------------------------------------------------
(* Unmounting *)

(* C24: once the component is unmounted no frame runs.                     *)
C24_NoFrameAfterUnmount ==
    [][ isUnmounted => lastOp' # "animate" ]_vars

(* C25: once the component is unmounted no texture load that completes     *)
(* writes into the material of a face.                                     *)
C25_NoTextureWriteAfterUnmount ==
    [][ (isUnmounted /\ lastOp' = "textureLoaded")
          => materialMaps' = materialMaps ]_vars

---------------------------------------------------------------------------
(* Image assignment in showcase mode (part_006) *)

(* C26: between two lap boundaries the pending update of the skipped face  *)
(* is applied at most once, and once it is applied it is no longer         *)
(* pending until a lap boundary arms it again.                             *)
C26_PendingUpdateAppliedOncePerLap ==
    /\ pendingApplied <= 1
    /\ pendingApplied = 1 => pendingSkippedFaceUpdate = Null

C26_Witness ==
    /\ lastOp = "animate"
    /\ pendingApplied = 1
    /\ pendingUpdateTriggered
    /\ faceWrites.pending = {}
    /\ faceWrites.batch = {}
    /\ cubeTilt = {}
    /\ TRUE \in AlignedOutcomes(FaceOf(showcaseSequence[1]), cubeQuaternion, cubeTilt)

(* C27: in no frame do the showcase assignment (the batch of a lap or the  *)
(* pending update of the skipped face) and face cycling both write the     *)
(* image index or the texture of one face.                                 *)
C27_OneWriterPerFace ==
    (faceWrites.batch \cup faceWrites.pending) \cap faceWrites.cycling = {}

(* C28: in a frame of an active, unpaused showcase face cycling advances   *)
(* no image index, an image index changes only where the batch of the lap  *)
(* or the pending update wrote it, and every face that entered the visible *)
(* set is handled, its cooldown running or not: its timestamp is set and   *)
(* it is counted.                                                          *)
C28_ShowcaseBypassesCycling ==
    [][ (lastOp' = "animate" /\ isShowcaseActive' /\ ~isShowcasePaused')
          => /\ faceWrites'.cycling = {}
             /\ \A f \in Faces :
                   faceImageIndices'[f] # faceImageIndices[f]
                      => f \in faceWrites'.batch \cup faceWrites'.pending
             /\ \A f \in risen' : faceChangeTimestamps'[f] = DateNow(now')
             /\ totalImageCycles' = totalImageCycles + Cardinality(risen') ]_vars

C28_Witness ==
    /\ lastOp = "animate"
    /\ ShowcaseRunning
    /\ faceWrites.bypassed # {}
    /\ faceWrites.bypassed \subseteq risen

---------------------------------------------------------------------------
(* Pausing *)

(* C31: a frame that finds the paused flag set leaves the sequence index,  *)
(* the accumulated time and the active flag as they are, and so does       *)
(* resumeShowcase(): the run goes on from the index and the accumulated    *)
(* time it was paused at.                                                  *)
C31_PauseKeepsPosition ==
    [][ /\ (lastOp' = "animate" /\ isShowcasePaused)
            => UNCHANGED <<showcaseCurrentIndex, showcaseAccumulatedTime,
                           isShowcaseActive>>
        /\ lastOp' = "resumeShowcase"
            => UNCHANGED <<showcaseCurrentIndex, showcaseAccumulatedTime>> ]_vars

C31_Witness ==
    /\ lastOp = "resumeShowcase"
    /\ emits = <<"showcaseResumed">>
    /\ showcaseCurrentIndex > 0
    /\ showcaseAccumulatedTime > 0
    /\ lastShowcaseFrameTime = now
    /\ unpausedTotal < now - 1

---------------------------------------------------------------------------
(* Image assignment and texture loads *)

(* The frame is one in which a looping showcase wraps to a new lap *)
LapWraps ==
    /\ lastOp' = "animate"
    /\ isShowcaseActive
    /\ ~isShowcasePaused
    /\ showcaseLoop
    /\ showcaseCurrentIndex = Len(showcaseSequence) - 1
    /\ advances' = advances + 1

(* C32: a successful startShowcase() leaves the image offset at 0 and      *)
(* every face i at image index (offset + i) mod N; a frame in which a      *)
(* looping showcase wraps advances the offset by 6 mod N and leaves every  *)
(* face but the skipped one at image index (offset + i) mod N with the     *)
(* texture of image (offset + translateIndex(i)) mod N.                    *)
C32_AssignmentFollowsOffset ==
    [][ /\ (lastOp' = "startShowcase" /\ emits' = <<"showcaseStarted">>)
            => /\ showcaseImageOffset' = 0
               /\ \A i \in Faces : faceImageIndices'[i] = i % props.images
        /\ LapWraps
            => /\ showcaseImageOffset' = (showcaseImageOffset + 6) % props.images
               /\ \A i \in Faces \ { FaceOf(faceToSkip(showcaseSequence)) } :
                     /\ faceImageIndices'[i] =
                           (showcaseImageOffset' + i) % props.images
                     /\ materialMaps'[i] =
                           (showcaseImageOffset' + translateIndex(i)) % props.images
      ]_vars

(* C33: the batch of a lap boundary of a looping showcase writes every     *)
(* face but one, and the face it leaves for the pending update is the last *)
(* face of the showcase sequence.                                          *)
C33_LapSkipsLastFace ==
    [][ LapWraps
          => Faces \ faceWrites'.batch =
                { FaceOf(showcaseSequence[Len(showcaseSequence)]) } ]_vars

---------------------------------------------------------------------------
(* Dragging and the showcase (part_006) *)

(* C34: no frame of an active showcase finds the drag flag set, whether    *)
(* the pointer went down before the showcase started or after.             *)
C34_NoDragWhileShowcaseActive ==
    [][ (lastOp' = "animate" /\ isShowcaseActive) => ~isDragging ]_vars

---------------------------------------------------------------------------
(* Material reordering (part_006) *)

(* C35: translateIndex maps every face of the cube to a face of the cube,  *)
(* exchanges 0 with 1, 2 with 3 and 4 with 5, and applied twice gives the  *)
(* face back.                                                              *)
C35_TranslateIndexSwapsPairs ==
    \A i \in DOMAIN faceImageIndices :
       /\ translateIndex(i) \in DOMAIN faceImageIndices
       /\ translateIndex(translateIndex(i)) = i
       /\ i \in {0, 2, 4} => translateIndex(i) = i + 1
       /\ i \in {1, 3, 5} => translateIndex(i) = i - 1

(* the batch of a lap has just given five faces the textures that          *)
(* translateIndex selects                                                  *)
C35_Witness ==
    /\ lastOp = "animate"
    /\ Cardinality(faceWrites.batch) = 5
    /\ \A i \in faceWrites.batch :
          materialMaps[i] =
             (showcaseImageOffset + translateIndex(i)) % props.images
    /\ \E i \in faceWrites.batch : translateIndex(i) \notin faceWrites.batch

---------------------------------------------------------------------------
(* The events a host follows the showcase by *)

(* C36: showcaseStarted is emitted only by a step that takes the sequencer *)
(* from inactive to active, showcaseStopped and showcaseCompleted only by  *)
(* a step that takes it from active to inactive, and a step that emits     *)
(* none of them leaves the active flag as it is: the events alternate,     *)
(* started first, and a flag a host sets on started and clears on stopped  *)
(* and completed equals isShowcaseActive() after every step.               *)
C36_EventsFollowActiveFlag ==
    [][ /\ Emitted("showcaseStarted")'
            => ~isShowcaseActive /\ isShowcaseActive'
        /\ (Emitted("showcaseStopped")' \/ Emitted("showcaseCompleted")')
            => isShowcaseActive /\ ~isShowcaseActive'
        /\ ~(\/ Emitted("showcaseStarted")'
             \/ Emitted("showcaseStopped")'
             \/ Emitted("showcaseCompleted")')
            => isShowcaseActive' = isShowcaseActive ]_vars

---------------------------------------------------------------------------
(* Texture loads that complete in any order *)

(* C37: with every load succeeding, whenever no load is pending the        *)
(* texture of each face is the image at the image index of that face.      *)
C37_SettledTexturesMatchIndices ==
    (phase = "ready" /\ pendingLoads = {})
        => \A f \in Faces : materialMaps[f] = faceImageIndices[f]

---------------------------------------------------------------------------
(* The showcase assignment and the Idle sequencer (part_006) *)

(* C38: a frame that finds the sequencer Idle makes no showcase            *)
(* assignment: neither the batch of a lap nor the pending update of the    *)
(* skipped face writes the image index or the texture of a face, and the   *)
(* count of applied pending updates stays as it is.                        *)
C38_IdleFramesAssignNothing ==
    [][ (lastOp' = "animate" /\ ~isShowcaseActive)
          => /\ faceWrites'.batch = {}
             /\ faceWrites'.pending = {}
             /\ pendingApplied' = pendingApplied ]_vars

(* C39: when a looping showcase wraps to a new lap, the pending update of *)
(* the skipped face that the lap boundary before armed has been applied:   *)
(* none is pending.                                                        *)
C39_NoPendingUpdateAtLapWrap ==
    [][ LapWraps => pendingSkippedFaceUpdate = Null ]_vars

---------------------------------------------------------------------------
(* Ranges (part_006) *)

(* C40: with six images or more, the image index of every face and the     *)
(* image offset of the showcase are in 0 .. N-1, N the number of images.   *)
C40_IndicesAndOffsetInRange ==
    props.images >= 6
        => /\ showcaseImageOffset \in 0 .. props.images - 1
           /\ \A f \in Faces : faceImageIndices[f] \in 0 .. props.images - 1

(* the pending update has given the skipped face an index that wrapped     *)
(* past the last image, after a lap whose offset is not 0                  *)
C40_Witness ==
    /\ lastOp = "animate"
    /\ props.images >= 6
    /\ showcaseImageOffset > 0
    /\ pendingApplied = 1
    /\ \E f \in faceWrites.pending :
          /\ showcaseImageOffset + f >= props.images
          /\ faceImageIndices[f] = (showcaseImageOffset + f) % props.images

====
